---- MODULE Spec2Model ----
(***************************************************************************)
(* Customer Experience dashboard (src/dashboard): three Streamlit scripts  *)
(* (app.py, test.py, app_v2_final.py) that load tables of one SQLite       *)
(* database, filter them by city and gender, derive a few columns and      *)
(* render metrics and charts.                                              *)
(*                                                                         *)
(* Library behaviour the scripts rely on is modelled as documented:        *)
(*   - st.cache_data keys an entry by the function and its arguments and   *)
(*     hands every caller a fresh copy of the stored value;                *)
(*   - a script is re-run from its first line after every widget change;   *)
(*   - pandas float division gives inf for x/0 (x # 0) and NaN for 0/0,    *)
(*     mean() of no values is NaN, sum() of no values is 0;                *)
(*   - df[col] of a missing column raises KeyError(col);                   *)
(*   - Python's sorted() raises TypeError on a list mixing str and numbers.*)
(***************************************************************************)
EXTENDS Integers, Sequences, FiniteSets, TLC

VARIABLES
    script,     \* which of the three dashboard scripts the session runs
    store,      \* the SQLite database: table name -> table (never written)
    cache,      \* st.cache_data: table name -> cached table
    reads,      \* number of SELECT * FROM <table> queries run, per table
    conns,      \* database connections opened and not closed
    runs,       \* script runs started in this session
    pc,         \* position of the running script
    city,       \* value of the City selectbox
    gender,     \* value of the Gender selectbox
    options,    \* the option lists the sidebar offered in this run
    env,        \* the script's DataFrame variables
    views,      \* the metrics and figures rendered in this run
    err,        \* the exception that ended this run, if any
    arg,        \* input of a function studied in isolation
    ret         \* its result

vars == <<script, store, cache, reads, conns, runs, pc, city, gender,
          options, env, views, err, arg, ret>>

sessionVars == <<script, store, cache, reads, conns, runs, pc, city, gender,
                 options, env, views, err>>

-----------------------------------------------------------------------------
(* Bounds of the model *)

\* rows per table in the function-level specifications
MaxRows == 2
\* rows per customer table in the session specification
MaxCustomers == 2
\* script runs per session (the first run plus the re-runs)
MaxRuns == 2

-----------------------------------------------------------------------------
(* Values *)

\* absent value: a variable not yet assigned, a cache miss, no exception
None == [k |-> "none"]

\* A categorical cell: a Python str, a number, or NULL (None/NaN in pandas).
\* v is the text str() gives for the value.
Str(s) == [t |-> "str", v |-> s]
Num(s) == [t |-> "num", v |-> s]
Null == [t |-> "null", v |-> ""]

\* the selectbox sentinel, app_v2_final.py:32
All == Str("All")

\* The strings of the model in Python's ascending (code point) order.
StrOrder == <<"1", "2", "All", "F", "LA", "M", "SD", "sd">>

Rank(s) == CHOOSE i \in 1..Len(StrOrder) : StrOrder[i] = s

\* A float cell: finite n/d in lowest terms, +-inf, or NaN (the null of a
\* numeric column).
NaN == [k |-> "nan", n |-> 0, d |-> 1]
Inf(s) == [k |-> "inf", n |-> s, d |-> 0]

RECURSIVE Gcd(_, _)
Gcd(a, b) == IF b = 0 THEN a ELSE Gcd(b, a % b)

AbsInt(x) == IF x < 0 THEN -x ELSE x

Fin(n, d) ==
    LET g == Gcd(AbsInt(n), AbsInt(d))
        s == IF d < 0 THEN -1 ELSE 1
    IN  [k |-> "fin", n |-> s * (n \div g), d |-> s * (d \div g)]

I(n) == Fin(n, 1)

IsNaN(x) == x.k = "nan"

SeqsUpTo(S, n) == UNION {[1..k -> S] : k \in 0..n}

Range(s) == {s[i] : i \in DOMAIN s}

-----------------------------------------------------------------------------
(* DataFrames *)

\* A DataFrame: its column set and its rows in order; a row carries its
\* index label (RangeIndex of read_sql_query) and one cell per column.
Frame(cols, rows) == [columns |-> cols, rows |-> rows]

MkRow(i, cells) == [idx |-> i, c |-> cells]

MkTable(cols, cellRows) ==
    Frame(cols, [i \in 1..Len(cellRows) |-> MkRow(i - 1, cellRows[i])])

\* df[col] as the sequence of the column's cells
Column(df, col) == [i \in 1..Len(df.rows) |-> df.rows[i].c[col]]

\* df[col] = values (adds the column or overwrites it, in place)
SetColumn(df, col, values) ==
    Frame(df.columns \cup {col},
          [i \in 1..Len(df.rows) |->
              MkRow(df.rows[i].idx,
                    [c \in df.columns \cup {col} |->
                        IF c = col THEN values[i] ELSE df.rows[i].c[c]])])

\* A function's outcome: a value, or the exception it raised with the names
\* its message carries.
Ok(v) == [exc |-> "none", names |-> {}, value |-> v]
Raise(e, ns) == [exc |-> e, names |-> ns, value |-> None]

-----------------------------------------------------------------------------
(* Filtering *)

\* filtered[filtered[col] == sel]: the rows whose cell equals sel (elementwise
\* ==, NULL equals nothing), in order and unchanged
EqMask(df, col, sel) ==
    LET keep(r) == r.c[col] # Null /\ r.c[col] = sel
    IN  Frame(df.columns, SelectSeq(df.rows, keep))

\* df.copy(): a new DataFrame with the same columns and rows
Copy(df) == Frame(df.columns, df.rows)

\* apply_filters with the gender mask taken from df instead of filtered,
\* which loses the city filter
apply_filters_gender_on_df(df, selCity, selGender) ==
    LET filtered == Copy(df)
        f1 == IF "city" \in df.columns /\ selCity # All
              THEN EqMask(filtered, "city", selCity) ELSE filtered
    IN  Ok(IF "gender" \in df.columns /\ selGender # All
           THEN EqMask(filtered, "gender", selGender) ELSE f1)

\* apply_filters without the "in df.columns" guards
apply_filters_unguarded(df, selCity, selGender) ==
    LET f1 == IF selCity # All
              THEN (IF "city" \in df.columns
                    THEN Ok(EqMask(Copy(df), "city", selCity))
                    ELSE Raise("KeyError", {"city"}))
              ELSE Ok(Copy(df))
    IN  IF f1.exc # "none" THEN f1
        ELSE IF selGender # All
        THEN (IF "gender" \in df.columns
              THEN Ok(EqMask(f1.value, "gender", selGender))
              ELSE Raise("KeyError", {"gender"}))
        ELSE f1

\* app_v2_final.py:35-41; never raises
apply_filters(df, selCity, selGender) ==
    LET filtered == Copy(df)
        f1 == IF "city" \in df.columns /\ selCity # All
              THEN EqMask(filtered, "city", selCity) ELSE filtered
    IN  Ok(IF "gender" \in df.columns /\ selGender # All
           THEN EqMask(f1, "gender", selGender) ELSE f1)

\* test.py:31-35 and app.py:29-33: the same two steps without the column
\* guards; filtered[col] raises KeyError(col) when the column is missing
inline_filter(df, selCity, selGender) ==
    LET f1 == IF selCity # All
              THEN (IF "city" \in df.columns
                    THEN Ok(EqMask(Copy(df), "city", selCity))
                    ELSE Raise("KeyError", {"city"}))
              ELSE Ok(Copy(df))
    IN  IF f1.exc # "none" THEN f1
        ELSE IF selGender # All
        THEN (IF "gender" \in f1.value.columns
              THEN Ok(EqMask(f1.value, "gender", selGender))
              ELSE Raise("KeyError", {"gender"}))
        ELSE f1

-----------------------------------------------------------------------------
(* The session's variables while a function is studied in isolation *)

Idle ==
    /\ script = "v2"
    /\ store = None
    /\ cache = None
    /\ reads = None
    /\ conns = 0
    /\ runs = 0
    /\ pc = "idle"
    /\ city = All
    /\ gender = All
    /\ options = None
    /\ env = None
    /\ views = None
    /\ err = None

-----------------------------------------------------------------------------
(* Specification SpecFilter: the two filter implementations on every small *)
(* table, with and without the city and gender columns.                    *)

CityCells == {Str("SD"), Str("sd"), Str("All"), Num("1"), Null}
GenderCells == {Str("F"), Str("M"), Null}
CitySelections == {All, Str("SD"), Str("sd"), Num("1")}
GenderSelections == {All, Str("F"), Str("M")}

\* the rows of a table with the given columns ("segment" stands for the
\* columns the filters do not read)
FilterCells(cols) ==
    {f \in [cols -> CityCells \cup GenderCells] :
        /\ "city" \in cols => f["city"] \in CityCells
        /\ "gender" \in cols => f["gender"] \in GenderCells
        /\ "segment" \in cols => f["segment"] = Num("1")}

FilterColumnSets ==
    {{"city", "gender", "segment"}, {"city", "segment"},
     {"gender", "segment"}, {"segment"}}

FilterTables ==
    UNION {{MkTable(cols, s) : s \in SeqsUpTo(FilterCells(cols), MaxRows)} :
           cols \in FilterColumnSets}

FilterInit ==
    /\ Idle
    /\ arg \in [fn : {"apply_filters", "inline_filter"},
                table : {"customer_360_enriched"},
                df : FilterTables,
                city : CitySelections,
                gender : GenderSelections]
    /\ ret = None

CallApplyFilters ==
    /\ arg.fn = "apply_filters"
    /\ ret = None
    /\ ret' = apply_filters(arg.df, arg.city, arg.gender)
    /\ UNCHANGED <<sessionVars, arg>>

CallInlineFilter ==
    /\ arg.fn = "inline_filter"
    /\ ret = None
    /\ ret' = inline_filter(arg.df, arg.city, arg.gender)
    /\ UNCHANGED <<sessionVars, arg>>

FilterNext == CallApplyFilters \/ CallInlineFilter

SpecFilter == FilterInit /\ [][FilterNext]_vars

\* the filters of a call whose selected value is not the sentinel
ActiveFilters(a) ==
    {f \in {"city", "gender"} : a[f] # All}

\* the row passes every filter in fs (exact equality, NULL passes none)
Passes(r, a, fs) ==
    \A f \in fs : r.c[f] # Null /\ r.c[f] = a[f]

\* C1: on a table that has the column of every active filter, both filter
\* implementations return, without raising, exactly the input rows that pass
\* all active filters (logical AND), in order, each row with its index and
\* cells unchanged and the column set unchanged; with every selection "All"
\* the rows returned are the rows of the input.
C1_FilterExactRows ==
    (ret # None /\ ActiveFilters(arg) \subseteq arg.df.columns) =>
        /\ ret.exc = "none"
        /\ ret.value.columns = arg.df.columns
        /\ \A i \in 1..Len(ret.value.rows) :
              /\ ret.value.rows[i] \in Range(arg.df.rows)
              /\ Passes(ret.value.rows[i], arg, ActiveFilters(arg))
              /\ \A j \in 1..Len(ret.value.rows) :
                    i < j => ret.value.rows[i].idx < ret.value.rows[j].idx
        /\ \A r \in Range(arg.df.rows) :
              Passes(r, arg, ActiveFilters(arg)) => r \in Range(ret.value.rows)
        /\ (ActiveFilters(arg) = {} => ret.value.rows = arg.df.rows)

\* C1 witness: both filters active on a table with both columns, one row kept
\* and one row dropped
C1_Witness ==
    /\ ret # None
    /\ ActiveFilters(arg) = {"city", "gender"}
    /\ {"city", "gender"} \subseteq arg.df.columns
    /\ ret.exc = "none"
    /\ Len(ret.value.rows) = 1
    /\ Len(arg.df.rows) = 2

\* the active filters whose column the table lacks
MissingFilters(a) == ActiveFilters(a) \ a.df.columns

-----------------------------------------------------------------------------
(* Selector options *)

\* Series.dropna(): the cells that are not NULL, in order
DropNa(col) ==
    LET notNull(x) == x # Null
    IN  SelectSeq(col, notNull)

\* Series.unique(): the distinct values in order of first appearance
RECURSIVE Unique(_)
Unique(col) ==
    IF col = <<>> THEN <<>>
    ELSE LET init == Unique(SubSeq(col, 1, Len(col) - 1))
             last == col[Len(col)]
         IN  IF last \in Range(init) THEN init ELSE Append(init, last)

\* str(x)
PyStr(x) == Str(x.v)

\* a < b for two str or two numbers (the numbers of the model order as
\* their texts do)
Lt(a, b) == Rank(a.v) < Rank(b.v)

RECURSIVE Insert(_, _)
Insert(x, s) ==
    IF s = <<>> THEN <<x>>
    ELSE IF Lt(x, Head(s)) THEN <<x>> \o s
    ELSE <<Head(s)>> \o Insert(x, Tail(s))

RECURSIVE SortAsc(_)
SortAsc(s) ==
    IF s = <<>> THEN <<>>
    ELSE Insert(s[Len(s)], SortAsc(SubSeq(s, 1, Len(s) - 1)))

\* sorted(list): ascending and stable; '<' between a str and a number raises
\* TypeError
sorted(s) ==
    IF \E i, j \in 1..Len(s) : s[i].t # s[j].t
    THEN Raise("TypeError", {})
    ELSE Ok(SortAsc(s))

\* df[col]: KeyError(col) when the frame has no such column
GetColumn(df, col) ==
    IF col \in df.columns THEN Ok(Column(df, col))
    ELSE Raise("KeyError", {col})

\* app.py:21-22
\*   ["All"] + sorted([str(x) for x in customer_df[col].dropna().unique()])
options_app(df, col) ==
    LET series == GetColumn(df, col)
    IN  IF series.exc # "none" THEN series
        ELSE LET uniq == Unique(DropNa(series.value))
                 strs == [i \in 1..Len(uniq) |-> PyStr(uniq[i])]
                 srt == sorted(strs)
             IN  IF srt.exc # "none" THEN srt
                 ELSE Ok(<<All>> \o srt.value)

\* app_v2_final.py:32-33 and test.py:28-29
\*   ["All"] + sorted(df_cleaned[col].dropna().unique().tolist())
options_v2(df, col) ==
    LET series == GetColumn(df, col)
    IN  IF series.exc # "none" THEN series
        ELSE LET srt == sorted(Unique(DropNa(series.value)))
             IN  IF srt.exc # "none" THEN srt
                 ELSE Ok(<<All>> \o srt.value)

-----------------------------------------------------------------------------
(* Specification SpecOptions: the option list of a selector for every     *)
(* small column of strings, numbers and NULLs.                            *)

\* cells per column in SpecOptions
MaxColumnLen == 3

OptionCells ==
    {Str("SD"), Str("LA"), Str("1"), Str("All"), Num("1"), Num("2"), Null}

OptionsInit ==
    /\ Idle
    /\ \E col \in {"city", "gender"} :
          arg \in [fn : {"options_app", "options_v2"},
                   col : {col},
                   df : {MkTable({col}, [i \in 1..Len(s) |-> [c \in {col} |-> s[i]]]) :
                            s \in SeqsUpTo(OptionCells, MaxColumnLen)}]
    /\ ret = None

CallOptionsApp ==
    /\ arg.fn = "options_app"
    /\ ret = None
    /\ ret' = options_app(arg.df, arg.col)
    /\ UNCHANGED <<sessionVars, arg>>

CallOptionsV2 ==
    /\ arg.fn = "options_v2"
    /\ ret = None
    /\ ret' = options_v2(arg.df, arg.col)
    /\ UNCHANGED <<sessionVars, arg>>

OptionsNext == CallOptionsApp \/ CallOptionsV2

SpecOptions == OptionsInit /\ [][OptionsNext]_vars

\* the texts of the column's non-null values
DistinctTexts(df, col) ==
    {PyStr(x) : x \in Range(Column(df, col)) \ {Null}}

\* C6: the option list is "All" followed by the stringified distinct non-null
\* values of the column in strictly ascending order (so none twice), with no
\* null entry.
C6_OptionsAllThenSortedDistinctStrings ==
    ret # None =>
        /\ ret.exc = "none"
        /\ Len(ret.value) = 1 + Cardinality(DistinctTexts(arg.df, arg.col))
        /\ ret.value[1] = All
        /\ \A i \in 2..Len(ret.value) :
              /\ ret.value[i] \in DistinctTexts(arg.df, arg.col)
              /\ i > 2 => Lt(ret.value[i - 1], ret.value[i])

-----------------------------------------------------------------------------
(* Specification SpecSelect: a selector's options are built from          *)
(* customer_360_cleaned, the user picks one of the options after the     *)
(* leading "All", the other selector stays on "All", and the table is    *)
(* filtered.                                                             *)

\* rows of the table in SpecSelect
MaxSelectRows == 2

SelectCells == {Str("SD"), Str("LA"), Str("All"), Num("1"), Null}

SelectTables ==
    {MkTable({"city", "gender"}, rows) :
        rows \in SeqsUpTo([city : SelectCells, gender : SelectCells],
                          MaxSelectRows)}

SelectInit ==
    /\ Idle
    /\ arg \in [fn : {"select_app", "select_v2"},
                col : {"city", "gender"},
                df : SelectTables]
    /\ ret = None

\* st.sidebar.selectbox(label, options): the value returned is the element
\* of options at the chosen position
selectbox(opts, i) == opts[i]

\* the filter arguments when selector col holds sel and the other one "All"
SelCity(col, sel) == IF col = "city" THEN sel ELSE All
SelGender(col, sel) == IF col = "gender" THEN sel ELSE All

\* app.py:21-22
OfferApp ==
    /\ arg.fn = "select_app"
    /\ ret = None
    /\ ret' = [options |-> options_app(arg.df, arg.col),
               chosen |-> None, out |-> None]
    /\ UNCHANGED <<sessionVars, arg>>

\* app_v2_final.py:32-33
OfferV2 ==
    /\ arg.fn = "select_v2"
    /\ ret = None
    /\ ret' = [options |-> options_v2(arg.df, arg.col),
               chosen |-> None, out |-> None]
    /\ UNCHANGED <<sessionVars, arg>>

\* app.py:24-33: an option after the first is selected and customer_df is
\* filtered
ChooseApp ==
    /\ arg.fn = "select_app"
    /\ ret # None
    /\ ret.chosen = None
    /\ ret.options.exc = "none"
    /\ \E i \in 2..Len(ret.options.value) :
          LET sel == selectbox(ret.options.value, i)
          IN  ret' = [ret EXCEPT
                        !.chosen = sel,
                        !.out = inline_filter(arg.df, SelCity(arg.col, sel),
                                              SelGender(arg.col, sel))]
    /\ UNCHANGED <<sessionVars, arg>>

\* app_v2_final.py:32-43: an option after the first is selected and
\* df_cleaned_f = apply_filters(df_cleaned)
ChooseV2 ==
    /\ arg.fn = "select_v2"
    /\ ret # None
    /\ ret.chosen = None
    /\ ret.options.exc = "none"
    /\ \E i \in 2..Len(ret.options.value) :
          LET sel == selectbox(ret.options.value, i)
          IN  ret' = [ret EXCEPT
                        !.chosen = sel,
                        !.out = apply_filters(arg.df, SelCity(arg.col, sel),
                                              SelGender(arg.col, sel))]
    /\ UNCHANGED <<sessionVars, arg>>

SelectNext == OfferApp \/ OfferV2 \/ ChooseApp \/ ChooseV2

SpecSelect == SelectInit /\ [][SelectNext]_vars

\* the rows of df whose column col holds the value sel
RowsHolding(df, col, sel) ==
    LET holds(r) == r.c[col] = sel
    IN  SelectSeq(df.rows, holds)

\* C11: once an option after the leading "All" has been selected (the other
\* selector on "All"), the filtered customer_360_cleaned consists of exactly
\* the rows whose column holds the selected value and has at least one row;
\* for every table content, numbers and the literal "All" in the column
\* included.
C11_EveryOptionSelectsItsRows ==
    (ret # None /\ ret.chosen # None) =>
        /\ ret.out.exc = "none"
        /\ ret.out.value.rows = RowsHolding(arg.df, arg.col, ret.chosen)
        /\ Len(ret.out.value.rows) >= 1

-----------------------------------------------------------------------------
(* Float arithmetic of pandas Series (operands finite or NaN) *)

\* a / b elementwise: x/0 is +-inf, 0/0 is NaN, NaN propagates
Div(a, b) ==
    IF IsNaN(a) \/ IsNaN(b) THEN NaN
    ELSE IF b.n = 0
    THEN (IF a.n = 0 THEN NaN ELSE Inf(IF a.n > 0 THEN 1 ELSE -1))
    ELSE Fin(a.n * b.d, a.d * b.n)

\* a - b elementwise
Sub(a, b) ==
    IF IsNaN(a) \/ IsNaN(b) THEN NaN
    ELSE Fin(a.n * b.d - b.n * a.d, a.d * b.d)

\* Series.abs(): NaN stays NaN
Abs(x) == IF x.k = "fin" THEN Fin(AbsInt(x.n), x.d) ELSE x

\* Series.fillna(v)
FillNa(x, v) == IF IsNaN(x) THEN v ELSE x

\* the fill value 0.01 of roi_clean, app_v2_final.py:228
RoiFill == Fin(1, 100)

\* df[a] / df[b], elementwise
DivColumns(df, a, b) ==
    [i \in 1..Len(df.rows) |-> Div(df.rows[i].c[a], df.rows[i].c[b])]

-----------------------------------------------------------------------------
(* Campaigns tab *)

\* df["roi"].fillna(0.01) without abs()
roi_clean_no_abs(df) ==
    [i \in 1..Len(df.rows) |-> FillNa(df.rows[i].c["roi"], RoiFill)]

\* app_v2_final.py:228, test.py:185: df["roi"].abs().fillna(0.01)
roi_clean(df) ==
    [i \in 1..Len(df.rows) |-> FillNa(Abs(df.rows[i].c["roi"]), RoiFill)]

\* app_v2_final.py:226-228, test.py:183-185: three columns assigned to
\* df_campaigns itself
derive_campaigns(df) ==
    LET d1 == SetColumn(df, "CTR", DivColumns(df, "clicks", "impressions"))
        d2 == SetColumn(d1, "CPC", DivColumns(d1, "budget", "clicks"))
    IN  SetColumn(d2, "roi_clean", roi_clean(d2))

\* A plotly express figure: for each role the column it names and that
\* column's values at the time the figure is built.
Figure(df, roles) ==
    [r \in DOMAIN roles |->
        [col |-> roles[r], values |-> Column(df, roles[r])]]

\* app_v2_final.py:230-234, test.py:188-194
fig_roi(df) ==
    Figure(df, [x |-> "campaign_type", y |-> "roi", color |-> "campaign_type"])

\* app_v2_final.py:238-243, test.py:198-206
fig_ctr(df) ==
    Figure(df, [x |-> "CTR", y |-> "conversion_rate", size |-> "roi_clean",
                color |-> "campaign_type", hover1 |-> "campaign_name",
                hover2 |-> "roi", hover3 |-> "budget"])

\* the whole tab: df_campaigns after the assignments, and the two charts
tab6(df) ==
    LET d == derive_campaigns(df)
    IN  [df_campaigns |-> d, fig_roi |-> fig_roi(d), fig_ctr |-> fig_ctr(d)]

-----------------------------------------------------------------------------
(* Specification SpecCampaign: the campaigns tab on every small campaigns  *)
(* table, zero clicks, zero impressions and null roi included.             *)

\* rows of the campaigns table in SpecCampaign
MaxCampaigns == 2

CampaignColumns ==
    {"campaign_name", "campaign_type", "clicks", "impressions", "budget",
     "conversion_rate", "roi"}

CampaignCells ==
    [campaign_name : {Str("c1")},
     campaign_type : {Str("Email")},
     clicks : {I(0), I(5)},
     impressions : {I(0), I(10)},
     budget : {I(0), I(20)},
     conversion_rate : {Fin(1, 4)},
     roi : {I(-2), I(3), NaN}]

CampaignTables ==
    {MkTable(CampaignColumns, s) : s \in SeqsUpTo(CampaignCells, MaxCampaigns)}

CampaignInit ==
    /\ Idle
    /\ arg \in [fn : {"tab6"}, df : CampaignTables]
    /\ ret = None

CallTab6 ==
    /\ arg.fn = "tab6"
    /\ ret = None
    /\ ret' = tab6(arg.df)
    /\ UNCHANGED <<sessionVars, arg>>

CampaignNext == CallTab6

SpecCampaign == CampaignInit /\ [][CampaignNext]_vars

IsZero(x) == x.k = "fin" /\ x.n = 0

Defined(x) == x.k = "fin"

\* C2: a campaign row with impressions = 0 has a CTR, and one with clicks = 0
\* a CPC, that is neither infinite nor NaN, and the CTR values the scatter
\* chart plots hold no infinity and no NaN.
C2_ZeroDenominatorNeverInfOrNaN ==
    ret # None =>
        /\ \A i \in 1..Len(arg.df.rows) :
              LET loaded == arg.df.rows[i].c
                  out == ret.df_campaigns.rows[i].c
              IN  /\ IsZero(loaded["impressions"]) => Defined(out["CTR"])
                  /\ IsZero(loaded["clicks"]) => Defined(out["CPC"])
        /\ \A i \in 1..Len(ret.fig_ctr.x.values) :
              Defined(ret.fig_ctr.x.values[i])

\* the (figure, role) pairs that read the given column
RolesOf(figs, col) ==
    {<<f, r>> \in UNION {{f} \X DOMAIN figs[f] : f \in DOMAIN figs} :
        figs[f][r].col = col}

\* C10: roi_clean is |roi|, or 0.01 where roi is null; only the marker size of
\* the CTR chart reads roi_clean; the ROI bar chart's value and the hover value
\* read the roi column, which still holds the values that were loaded.
C10_RoiCleanSizesOnlyRoiDisplayed ==
    ret # None =>
        LET figs == [fig_roi |-> ret.fig_roi, fig_ctr |-> ret.fig_ctr]
            roi == Column(arg.df, "roi")
        IN  /\ \A i \in 1..Len(arg.df.rows) :
                  ret.df_campaigns.rows[i].c["roi_clean"] =
                      IF IsNaN(roi[i]) THEN Fin(1, 100)
                      ELSE IF roi[i].n < 0 THEN Fin(-roi[i].n, roi[i].d)
                      ELSE roi[i]
            /\ RolesOf(figs, "roi_clean") = {<<"fig_ctr", "size">>}
            /\ ret.fig_ctr.size.values = Column(ret.df_campaigns, "roi_clean")
            /\ ret.fig_roi.y.col = "roi"
            /\ ret.fig_roi.y.values = roi
            /\ ret.fig_ctr.hover2.col = "roi"
            /\ ret.fig_ctr.hover2.values = roi
            /\ Column(ret.df_campaigns, "roi") = roi

\* C10 witness: the tab ran on a table with a null roi and a negative roi
C10_Witness ==
    /\ ret # None
    /\ arg.fn = "tab6"
    /\ Len(arg.df.rows) = 2
    /\ IsNaN(arg.df.rows[1].c["roi"])
    /\ arg.df.rows[2].c["roi"] = I(-2)
    /\ ret.fig_ctr.size.values = <<Fin(1, 100), I(2)>>

-----------------------------------------------------------------------------
(* Group-by aggregates *)

\* a + b for finite a, b
Add(a, b) == Fin(a.n * b.d + b.n * a.d, a.d * b.d)

\* a <= b for finite a, b
Leq(a, b) == a.n * b.d <= b.n * a.d

\* One pass over the rows in order: per group key (NULL keys are dropped) the
\* sum and the count of the non-NaN values, groups in order of first
\* appearance.
RECURSIVE GroupFold(_, _, _)
GroupFold(rows, by, val) ==
    IF rows = <<>> THEN <<>>
    ELSE LET acc == GroupFold(SubSeq(rows, 1, Len(rows) - 1), by, val)
             key == rows[Len(rows)].c[by]
             x == rows[Len(rows)].c[val]
             xs == IF IsNaN(x) THEN I(0) ELSE x
             xc == IF IsNaN(x) THEN 0 ELSE 1
         IN  IF key = Null THEN acc
             ELSE IF \E i \in 1..Len(acc) : acc[i].key = key
             THEN [i \in 1..Len(acc) |->
                     IF acc[i].key = key
                     THEN [key |-> key, sum |-> Add(acc[i].sum, xs),
                           count |-> acc[i].count + xc]
                     ELSE acc[i]]
             ELSE Append(acc, [key |-> key, sum |-> xs, count |-> xc])

RECURSIVE InsertByKey(_, _)
InsertByKey(g, s) ==
    IF s = <<>> THEN <<g>>
    ELSE IF Lt(g.key, Head(s).key) THEN <<g>> \o s
    ELSE <<Head(s)>> \o InsertByKey(g, Tail(s))

RECURSIVE SortByKey(_)
SortByKey(s) ==
    IF s = <<>> THEN <<>>
    ELSE InsertByKey(s[Len(s)], SortByKey(SubSeq(s, 1, Len(s) - 1)))

\* groupby(by, sort=False): the groups stay in order of first appearance
groupby_unsorted(df, by, val) == GroupFold(df.rows, by, val)

\* df.groupby(by)[val]: the groups sorted by key (sort=True is the default;
\* the keys of the model's grouped columns are all str)
groupby(df, by, val) == SortByKey(GroupFold(df.rows, by, val))

\* .sum(): a (key, value) series; the sum of no values is 0
groupby_sum(df, by, val) ==
    LET g == groupby(df, by, val)
    IN  [i \in 1..Len(g) |-> [key |-> g[i].key, value |-> g[i].sum]]

\* .mean(): the mean of no values is NaN
groupby_mean(df, by, val) ==
    LET g == groupby(df, by, val)
    IN  [i \in 1..Len(g) |->
            [key |-> g[i].key,
             value |-> IF g[i].count = 0 THEN NaN
                       ELSE Div(g[i].sum, I(g[i].count))]]

RECURSIVE InsertDesc(_, _)
InsertDesc(g, s) ==
    IF s = <<>> THEN <<g>>
    ELSE IF ~Leq(g.value, Head(s).value) THEN <<g>> \o s
    ELSE <<Head(s)>> \o InsertDesc(g, Tail(s))

RECURSIVE SortDesc(_)
SortDesc(s) ==
    IF s = <<>> THEN <<>>
    ELSE InsertDesc(s[Len(s)], SortDesc(SubSeq(s, 1, Len(s) - 1)))

\* Series.nlargest(n) (keep="first"): NaN dropped, the n largest values in
\* descending order, equal values in their order in the series
nlargest(series, n) ==
    LET notNaN(g) == ~IsNaN(g.value)
        srt == SortDesc(SelectSeq(series, notNaN))
    IN  SubSeq(srt, 1, IF n < Len(srt) THEN n ELSE Len(srt))

\* nlargest(10), app_v2_final.py:110
TopN == 10

-----------------------------------------------------------------------------
(* Specification SpecAgg: the group-by charts on every small table and on  *)
(* every permutation of its rows.                                          *)

\* rows per table in SpecAgg
MaxAggRows == 3

AggCells ==
    [city : {Str("SD"), Str("LA"), Null},
     monetary : {I(30), I(50), I(100)}]

\* the frame with the rows of df in the order p[1], p[2], ...
Permuted(df, p) == Frame(df.columns, [i \in 1..Len(df.rows) |-> df.rows[p[i]]])

\* the truncations studied: the top 1, the top 2, and the code's top 10
TopSizes == {1, 2, TopN}

AggInit ==
    /\ Idle
    /\ \E orig \in {MkTable({"city", "monetary"}, s) :
                       s \in SeqsUpTo(AggCells, MaxAggRows)} :
          arg \in [fn : {"tab2"},
                   orig : {orig},
                   df : {Permuted(orig, p) :
                            p \in Permutations(1..Len(orig.rows))}]
    /\ ret = None

\* the aggregates of the Customers tab, app_v2_final.py:110,119:
\*   groupby("city")["monetary"].sum().nlargest(n)
\*   groupby(...)["monetary"].mean()
tab2_aggregates(df) ==
    LET sums == groupby_sum(df, "city", "monetary")
    IN  [sum |-> sums,
         top |-> [n \in TopSizes |-> nlargest(sums, n)],
         mean |-> groupby_mean(df, "city", "monetary")]

CallTab2Aggregates ==
    /\ arg.fn = "tab2"
    /\ ret = None
    /\ ret' = tab2_aggregates(arg.df)
    /\ UNCHANGED <<sessionVars, arg>>

AggNext == CallTab2Aggregates

SpecAgg == AggInit /\ [][AggNext]_vars

\* the scenario of the specification: (SD,100), (LA,50), (SD,30)
ScenarioRows ==
    <<[city |-> Str("SD"), monetary |-> I(100)],
      [city |-> Str("LA"), monetary |-> I(50)],
      [city |-> Str("SD"), monetary |-> I(30)]>>

Min(a, b) == IF a < b THEN a ELSE b

-----------------------------------------------------------------------------
(* Series reductions *)

RECURSIVE SumSeq(_)
SumSeq(col) ==
    IF col = <<>> THEN I(0)
    ELSE LET x == col[Len(col)]
             rest == SumSeq(SubSeq(col, 1, Len(col) - 1))
         IN  IF IsNaN(x) THEN rest ELSE Add(rest, x)

\* Series.sum(): NaN skipped, 0 for no values
Sum(col) == SumSeq(col)

\* Series.mean(): NaN skipped, NaN for no values
Mean(col) ==
    LET vals == SelectSeq(col, LAMBDA x : ~IsNaN(x))
    IN  IF vals = <<>> THEN NaN ELSE Div(SumSeq(vals), I(Len(vals)))

\* (Series == v).sum(): how many cells equal v
CountEq(col, v) ==
    I(Cardinality({i \in 1..Len(col) : col[i] = v}))

\* (Series == v).mean() * 100: the share of cells equal to v, NaN for an
\* empty series
PercentEq(col, v) ==
    IF col = <<>> THEN NaN
    ELSE Div(Fin(100 * CountEq(col, v).n, 1), I(Len(col)))

\* Series.min() / Series.max(): NaN skipped, NaN for no values
ColMin(col) ==
    LET vals == SelectSeq(col, LAMBDA x : ~IsNaN(x))
    IN  IF vals = <<>> THEN NaN
        ELSE CHOOSE m \in Range(vals) : \A x \in Range(vals) : Leq(m, x)

ColMax(col) ==
    LET vals == SelectSeq(col, LAMBDA x : ~IsNaN(x))
    IN  IF vals = <<>> THEN NaN
        ELSE CHOOSE m \in Range(vals) : \A x \in Range(vals) : Leq(x, m)

\* app_v2_final.py:69-72
\*   (recency_days - recency_days.min()) / (max() - min())
recency_norm(df) ==
    LET col == Column(df, "recency_days")
        lo == ColMin(col)
        hi == ColMax(col)
    IN  [i \in 1..Len(col) |-> Div(Sub(col[i], lo), Sub(hi, lo))]

\* f"{x:.2f}" and the like: the text a metric shows for a float
Fmt(x) ==
    IF x.k = "fin" THEN [text |-> "number", value |-> x]
    ELSE IF x.k = "nan" THEN [text |-> "nan", value |-> x]
    ELSE [text |-> "inf", value |-> x]

-----------------------------------------------------------------------------
(* Specification SpecRecency: the recency_norm column and the RFM chart   *)
(* of tab1 for every small filtered customer_360_cleaned.                 *)

\* rows of the filtered table in SpecRecency
MaxRecencyRows == 3

\* a customer of the cleaned table: recency_days is a day count
RecencyCells ==
    [recency_days : {I(0), I(10), I(30), I(200)},
     frequency : {I(1)},
     monetary : {I(30)}]

RecencyTables ==
    {MkTable({"recency_days", "frequency", "monetary"}, rows) :
        rows \in SeqsUpTo(RecencyCells, MaxRecencyRows)}

RecencyInit ==
    /\ Idle
    /\ arg \in [fn : {"recency_norm"}, df : RecencyTables]
    /\ ret = None

\* app_v2_final.py:75-86: the chart coloured by recency_norm
fig_rfm(df) ==
    Figure(df, [x |-> "frequency", y |-> "monetary", color |-> "recency_norm"])

\* app_v2_final.py:69-94: df_cleaned_f gets the column, fig_rfm is drawn
CallRecencyNorm ==
    /\ arg.fn = "recency_norm"
    /\ ret = None
    /\ LET withNorm == SetColumn(arg.df, "recency_norm", recency_norm(arg.df))
       IN  ret' = [df_cleaned_f |-> withNorm, fig_rfm |-> fig_rfm(withNorm)]
    /\ UNCHANGED <<sessionVars, arg>>

RecencyNext == CallRecencyNorm

SpecRecency == RecencyInit /\ [][RecencyNext]_vars

\* C12: for a filtered table with at least one row, recency_norm of every
\* row is a finite number between 0 and 1, 0 on a row with the smallest
\* recency_days and 1 on a row with the largest (when the two differ), and
\* the chart's colour values are that column; a table whose rows all have
\* the same recency_days and a table of one row included.
C12_RecencyNormDefinedInUnitRange ==
    (ret # None /\ Len(arg.df.rows) >= 1) =>
        LET days == Column(arg.df, "recency_days")
            norm == Column(ret.df_cleaned_f, "recency_norm")
        IN  /\ ret.fig_rfm.color.values = norm
            /\ \A i \in 1..Len(days) :
                  /\ norm[i].k = "fin"
                  /\ Leq(I(0), norm[i])
                  /\ Leq(norm[i], I(1))
                  /\ days[i] = ColMin(days) => norm[i] = I(0)
                  /\ (days[i] = ColMax(days) /\ ColMax(days) # ColMin(days))
                        => norm[i] = I(1)

-----------------------------------------------------------------------------
(* The session: one browser session running one of the scripts *)

Scripts == {"app", "test", "v2"}

CustomerTables ==
    {"customer_360_cleaned", "customer_360_enriched", "customer_360_predicted"}

TableNames == CustomerTables \cup {"campaigns"}

\* the tables a script loads at its top, in order: app.py:16,
\* test.py:19-22, app_v2_final.py:23-26
Loads(s) ==
    IF s = "app" THEN <<"customer_360_cleaned">>
    ELSE <<"customer_360_cleaned", "customer_360_enriched",
           "customer_360_predicted", "campaigns">>

LoadPc == <<"load1", "load2", "load3", "load4">>

\* the variable a loaded table is bound to (customer_df and campaigns of
\* app.py are df_cleaned and df_campaigns here)
EnvVar(t) ==
    CASE t = "customer_360_cleaned" -> "df_cleaned"
      [] t = "customer_360_enriched" -> "df_enriched"
      [] t = "customer_360_predicted" -> "df_predicted"
      [] t = "campaigns" -> "df_campaigns"

EnvVars ==
    {"df_cleaned", "df_enriched", "df_predicted", "df_campaigns",
     "filtered", "df_cleaned_f", "df_enriched_f", "df_predicted_f"}

ViewNames ==
    {"revenue", "active", "avg_satisfaction", "churn_rate", "fig_rfm",
     "fig_rev", "fig_city", "fig_gender", "fig_seg", "fig_support", "fig_churn",
     "fig_sentiment", "fig_roi", "fig_ctr"}

\* the step after the last load, and after each tab
AfterTab(s, step) ==
    CASE step = "tab1" -> "tab2"
      [] step = "tab2" -> "tab3"
      [] step = "tab3" -> "tab4"
      [] step = "tab4" -> IF s = "app" THEN "done" ELSE "tab5"
      [] step = "tab5" -> "tab6"
      [] step = "tab6" -> "done"

\* A rendered metric or chart: the table its data came from, the index labels
\* of the rows it was computed from, and what it shows.
View(t, df, shown) ==
    [table |-> t,
     idx |-> [i \in 1..Len(df.rows) |-> df.rows[i].idx],
     shown |-> shown]

(* The database of the session *)

PersonCells == [city : {Str("SD"), Str("LA")}, gender : {Str("F"), Str("M")}]

\* the customer tables hold one row per person, in the same order
CleanedRow(p) ==
    [city |-> p.city, gender |-> p.gender,
     monetary |-> IF p.city = Str("SD") THEN I(100) ELSE I(50),
     has_transaction |-> IF p.gender = Str("F") THEN I(1) ELSE I(0),
     avg_support_score |-> IF p.gender = Str("F") THEN I(4) ELSE I(3),
     recency_days |-> IF p.city = Str("SD") THEN I(10) ELSE I(200),
     frequency |-> I(2)]

EnrichedRow(p) ==
    [city |-> p.city, gender |-> p.gender,
     monetary |-> IF p.city = Str("SD") THEN I(100) ELSE I(50),
     has_transaction |-> IF p.gender = Str("F") THEN I(1) ELSE I(0),
     avg_support_score |-> IF p.gender = Str("F") THEN I(4) ELSE I(3),
     sentiment_score |-> Fin(1, 2)]

PredictedRow(p, demo) ==
    IF demo
    THEN [city |-> p.city, gender |-> p.gender,
          churn_flag |-> IF p.city = Str("SD") THEN I(0) ELSE I(1)]
    ELSE [churn_flag |-> IF p.city = Str("SD") THEN I(0) ELSE I(1)]

\* the three customer tables of a list of people
CustomerTable(t, people, demo) ==
    LET row(p) == CASE t = "customer_360_cleaned" -> CleanedRow(p)
                    [] t = "customer_360_enriched" -> EnrichedRow(p)
                    [] t = "customer_360_predicted" -> PredictedRow(p, demo)
    IN  MkTable(DOMAIN row(CHOOSE p \in PersonCells : TRUE),
                [i \in 1..Len(people) |-> row(people[i])])

SessionCampaigns ==
    MkTable(CampaignColumns,
            <<[campaign_name |-> Str("c1"), campaign_type |-> Str("Email"),
               clicks |-> I(5), impressions |-> I(10), budget |-> I(20),
               conversion_rate |-> Fin(1, 4), roi |-> I(-2)],
              [campaign_name |-> Str("c1"), campaign_type |-> Str("Email"),
               clicks |-> I(0), impressions |-> I(0), budget |-> I(20),
               conversion_rate |-> Fin(1, 4), roi |-> NaN]>>)

\* the databases of the model: the predicted table with or without the city
\* and gender columns, the campaigns table present or missing (None)
SessionStores ==
    {[t \in TableNames |->
        IF t = "campaigns" THEN camp ELSE CustomerTable(t, people, demo)] :
     people \in SeqsUpTo(PersonCells, MaxCustomers),
     demo \in BOOLEAN,
     camp \in {SessionCampaigns, None}}

Init ==
    /\ script \in Scripts
    /\ store \in SessionStores
    /\ cache = [t \in TableNames |-> None]
    /\ reads = [t \in TableNames |-> 0]
    /\ conns = 0
    /\ runs = 1
    /\ pc = "load1"
    /\ city = All
    /\ gender = All
    /\ options = None
    /\ env = [v \in EnvVars |-> None]
    /\ views = [v \in ViewNames |-> None]
    /\ err = None
    /\ arg = None
    /\ ret = None

\* the run ends with an uncaught exception
Fail(e) ==
    /\ err' = e
    /\ pc' = "done"

(* Loading *)

\* One call of the @st.cache_data function (load_table of test.py:12-17 and
\* app_v2_final.py:16-21, load_data of app.py:10-14).  A hit returns a copy of
\* the entry without touching the database.  A miss connects and runs the
\* query; load_table closes the connection after a successful query,
\* load_data never closes it; a failed query raises before the close.
LoadTable ==
    \E i \in 1..Len(Loads(script)) :
        /\ pc = LoadPc[i]
        /\ LET t == Loads(script)[i]
               next == IF i = Len(Loads(script)) THEN "sidebar"
                       ELSE LoadPc[i + 1]
           IN  IF cache[t] # None
               THEN /\ env' = [env EXCEPT ![EnvVar(t)] = Copy(cache[t])]
                    /\ pc' = next
                    /\ UNCHANGED <<cache, reads, conns, err>>
               ELSE /\ reads' = [reads EXCEPT ![t] = @ + 1]
                    /\ IF store[t] = None
                       THEN /\ conns' = conns + 1
                            /\ Fail(Raise("DatabaseError", {t}))
                            /\ UNCHANGED <<cache, env>>
                       ELSE /\ conns' = IF script = "app" THEN conns + 1
                                        ELSE conns
                            /\ cache' = [cache EXCEPT ![t] = store[t]]
                            /\ env' = [env EXCEPT ![EnvVar(t)] = Copy(store[t])]
                            /\ pc' = next
                            /\ UNCHANGED err
        /\ UNCHANGED <<script, store, runs, city, gender, options, views,
                       arg, ret>>

(* Sidebar *)

\* the value a selectbox returns: the session's value while it is one of the
\* options, else the first option
Selected(value, opts) ==
    IF value \in Range(opts) THEN value ELSE opts[1]

\* app.py:21-25, test.py:28-29, app_v2_final.py:32-33: the City options and
\* selectbox, then the Gender options and selectbox
Sidebar ==
    /\ pc = "sidebar"
    /\ LET oc == IF script = "app" THEN options_app(env.df_cleaned, "city")
                 ELSE options_v2(env.df_cleaned, "city")
           og == IF script = "app" THEN options_app(env.df_cleaned, "gender")
                 ELSE options_v2(env.df_cleaned, "gender")
       IN  IF oc.exc # "none"
           THEN Fail(oc) /\ UNCHANGED <<options, city, gender>>
           ELSE IF og.exc # "none"
           THEN /\ Fail(og)
                /\ city' = Selected(city, oc.value)
                /\ UNCHANGED <<options, gender>>
           ELSE /\ options' = [city |-> oc.value, gender |-> og.value]
                /\ city' = Selected(city, oc.value)
                /\ gender' = Selected(gender, og.value)
                /\ pc' = "filter"
                /\ UNCHANGED err
    /\ UNCHANGED <<script, store, cache, reads, conns, runs, env, views,
                   arg, ret>>

(* Filtering *)

\* app_v2_final.py:43-45: the three customer tables through apply_filters;
\* test.py:31-35: df_enriched only; app.py:29-33: customer_df
Filter ==
    /\ pc = "filter"
    /\ IF script = "v2"
       THEN /\ env' = [env EXCEPT
                  !["df_cleaned_f"] =
                      apply_filters(env.df_cleaned, city, gender).value,
                  !["df_enriched_f"] =
                      apply_filters(env.df_enriched, city, gender).value,
                  !["df_predicted_f"] =
                      apply_filters(env.df_predicted, city, gender).value]
            /\ pc' = "tab1"
            /\ UNCHANGED err
       ELSE LET src == IF script = "test" THEN env.df_enriched
                       ELSE env.df_cleaned
                out == inline_filter(src, city, gender)
            IN  IF out.exc # "none"
                THEN Fail(out) /\ UNCHANGED env
                ELSE /\ env' = [env EXCEPT !["filtered"] = out.value]
                     /\ pc' = "tab1"
                     /\ UNCHANGED err
    /\ UNCHANGED <<script, store, cache, reads, conns, runs, city, gender,
                   options, views, arg, ret>>

(* Tabs *)

\* the frame the customer views of a script read: the filtered frame of the
\* table in app_v2_final.py; in test.py the loaded frame itself, except for the
\* KPI metrics, which read "filtered"; in app.py always filtered_df
Shown(t) ==
    IF script = "v2"
    THEN CASE t = "customer_360_cleaned" -> env.df_cleaned_f
           [] t = "customer_360_enriched" -> env.df_enriched_f
           [] t = "customer_360_predicted" -> env.df_predicted_f
    ELSE IF script = "test" THEN env[EnvVar(t)]
    ELSE env.filtered

\* the table whose rows the KPI metrics of tab1 read
KpiTable ==
    IF script = "test" THEN "customer_360_enriched"
    ELSE "customer_360_cleaned"

KpiFrame == IF script = "v2" THEN env.df_cleaned_f ELSE env.filtered

\* app.py:38-47, test.py:48-64, app_v2_final.py:58-100
Tab1Overview ==
    /\ pc = "tab1"
    /\ LET kpi == KpiFrame
           pred == Shown("customer_360_predicted")
           withNorm == SetColumn(env.df_cleaned_f, "recency_norm",
                                 recency_norm(env.df_cleaned_f))
           metrics ==
               [views EXCEPT
                  !["revenue"] =
                      View(KpiTable, kpi, Fmt(Sum(Column(kpi, "monetary")))),
                  !["avg_satisfaction"] =
                      View(KpiTable, kpi,
                           Fmt(Mean(Column(kpi, "avg_support_score"))))]
       IN  CASE script = "v2" ->
                  /\ env' = [env EXCEPT !["df_cleaned_f"] = withNorm]
                  /\ views' = [metrics EXCEPT
                        !["active"] =
                            View(KpiTable, kpi,
                                 Fmt(CountEq(Column(kpi, "has_transaction"), I(1)))),
                        !["churn_rate"] =
                            View("customer_360_predicted", pred,
                                 Fmt(PercentEq(Column(pred, "churn_flag"), I(1)))),
                        !["fig_rfm"] =
                            View("customer_360_cleaned", withNorm,
                                 Figure(withNorm,
                                        [x |-> "frequency", y |-> "monetary",
                                         color |-> "recency_norm"]))]
              [] script = "test" ->
                  /\ env' = env
                  /\ views' = [metrics EXCEPT
                        !["active"] =
                            View(KpiTable, kpi,
                                 Fmt(CountEq(Column(kpi, "has_transaction"), I(1)))),
                        !["churn_rate"] =
                            View("customer_360_predicted", pred,
                                 Fmt(PercentEq(Column(pred, "churn_flag"), I(1)))),
                        !["fig_rfm"] =
                            View("customer_360_cleaned", env.df_cleaned,
                                 Figure(env.df_cleaned,
                                        [x |-> "frequency", y |-> "monetary",
                                         color |-> "recency_days"]))]
              [] script = "app" ->
                  /\ env' = env
                  /\ views' = [metrics EXCEPT
                        !["churn_rate"] =
                            View(KpiTable, kpi,
                                 Fmt(PercentEq(Column(kpi, "has_transaction"), I(0)))),
                        !["fig_rev"] =
                            View(KpiTable, kpi,
                                 Figure(kpi, [x |-> "monetary"]))]
    /\ pc' = AfterTab(script, "tab1")
    /\ UNCHANGED <<script, store, cache, reads, conns, runs, city, gender,
                   options, err, arg, ret>>

\* app.py:50-59, test.py:69-100, app_v2_final.py:106-133 (fig_seg stands
\* for the charts of the predicted table: fig_seg, and fig_cluster of test.py)
Tab2Customers ==
    /\ pc = "tab2"
    /\ LET df == Shown("customer_360_cleaned")
           pred == Shown("customer_360_predicted")
           sums == groupby_sum(df, "city", "monetary")
           charts ==
               [views EXCEPT
                  !["fig_city"] =
                      View("customer_360_cleaned", df,
                           IF script = "app" THEN SortDesc(sums)
                           ELSE nlargest(sums, TopN)),
                  !["fig_gender"] =
                      View("customer_360_cleaned", df,
                           groupby_mean(df, "gender", "monetary"))]
       IN  views' = IF script = "app" THEN charts
                    ELSE [charts EXCEPT
                            !["fig_seg"] =
                                View("customer_360_predicted", pred, None)]
    /\ pc' = AfterTab(script, "tab2")
    /\ UNCHANGED <<script, store, cache, reads, conns, runs, city, gender,
                   options, env, err, arg, ret>>

\* app.py:62-70, test.py:105-127, app_v2_final.py:138-165 (every chart of
\* the tab reads the same frame; fig_support stands for them)
Tab3Support ==
    /\ pc = "tab3"
    /\ views' = [views EXCEPT
          !["fig_support"] =
              View("customer_360_cleaned", Shown("customer_360_cleaned"), None)]
    /\ pc' = AfterTab(script, "tab3")
    /\ UNCHANGED <<script, store, cache, reads, conns, runs, city, gender,
                   options, env, err, arg, ret>>

\* test.py:132-149, app_v2_final.py:170-188: the churn histogram.
\* app.py:73-78: the campaigns table read on a connection of its own, outside
\* st.cache_data and never closed, then the ROI bar chart.
Tab4Insights ==
    /\ pc = "tab4"
    /\ IF script = "app"
       THEN /\ conns' = conns + 1
            /\ reads' = [reads EXCEPT !["campaigns"] = @ + 1]
            /\ IF store["campaigns"] = None
               THEN /\ Fail(Raise("DatabaseError", {"campaigns"}))
                    /\ UNCHANGED <<env, views>>
               ELSE /\ env' = [env EXCEPT
                          !["df_campaigns"] = Copy(store["campaigns"])]
                    /\ views' = [views EXCEPT
                          !["fig_roi"] =
                              View("campaigns", store["campaigns"],
                                   Figure(store["campaigns"],
                                          [x |-> "campaign_type", y |-> "roi"]))]
                    /\ pc' = AfterTab(script, "tab4")
                    /\ UNCHANGED err
       ELSE /\ views' = [views EXCEPT
                  !["fig_churn"] =
                      View("customer_360_predicted",
                           Shown("customer_360_predicted"), None)]
            /\ pc' = AfterTab(script, "tab4")
            /\ UNCHANGED <<conns, reads, env, err>>
    /\ UNCHANGED <<script, store, cache, runs, city, gender, options,
                   arg, ret>>

\* test.py:154-174, app_v2_final.py:193-218 (both charts read the same
\* frame; fig_sentiment stands for them)
Tab5Sentiment ==
    /\ pc = "tab5"
    /\ views' = [views EXCEPT
          !["fig_sentiment"] =
              View("customer_360_enriched", Shown("customer_360_enriched"), None)]
    /\ pc' = AfterTab(script, "tab5")
    /\ UNCHANGED <<script, store, cache, reads, conns, runs, city, gender,
                   options, env, err, arg, ret>>

\* test.py:179-207, app_v2_final.py:223-245
Tab6Campaigns ==
    /\ pc = "tab6"
    /\ LET out == tab6(env.df_campaigns)
       IN  /\ env' = [env EXCEPT !["df_campaigns"] = out.df_campaigns]
           /\ views' = [views EXCEPT
                 !["fig_roi"] = View("campaigns", out.df_campaigns, out.fig_roi),
                 !["fig_ctr"] = View("campaigns", out.df_campaigns, out.fig_ctr)]
    /\ pc' = AfterTab(script, "tab6")
    /\ UNCHANGED <<script, store, cache, reads, conns, runs, city, gender,
                   options, err, arg, ret>>

(* User interaction *)

\* The user picks a city and a gender among the options shown (or presses
\* Rerun): Streamlit runs the script again from its first line with the new
\* widget values; the cache outlives the run, the script's variables do not.
Select ==
    /\ pc = "done"
    /\ runs < MaxRuns
    /\ \E c \in (IF options = None THEN {city} ELSE Range(options.city)) :
       \E g \in (IF options = None THEN {gender} ELSE Range(options.gender)) :
          /\ city' = c
          /\ gender' = g
    /\ runs' = runs + 1
    /\ pc' = "load1"
    /\ options' = None
    /\ env' = [v \in EnvVars |-> None]
    /\ views' = [v \in ViewNames |-> None]
    /\ err' = None
    /\ UNCHANGED <<script, store, cache, reads, conns, arg, ret>>

\* A connection the program left without close() (app.py:11-13 and 74-76;
\* the failing query of load_table, app_v2_final.py:18-19) stays open until
\* the interpreter finalises the object, at a time of its choosing.
Finalize ==
    /\ conns > 0
    /\ conns' = conns - 1
    /\ UNCHANGED <<script, store, cache, reads, runs, pc, city, gender,
                   options, env, views, err, arg, ret>>

Next ==
    \/ LoadTable
    \/ Sidebar
    \/ Filter
    \/ Tab1Overview
    \/ Tab2Customers
    \/ Tab3Support
    \/ Tab4Insights
    \/ Tab5Sentiment
    \/ Tab6Campaigns
    \/ Select
    \/ Finalize

Spec == Init /\ [][Next]_vars

-----------------------------------------------------------------------------
(* Claims on the session *)

\* C4: within one session every named table that exists in the store is read
\* from the store at most once, whatever the user selects; later accesses are
\* served from the cache.
C4_EachTableReadAtMostOnce ==
    \A t \in TableNames : store[t] # None => reads[t] <= 1

\* C5: a loaded table is a read-only snapshot: the frame bound to the variable
\* a table was loaded into still has the rows and the columns of the stored
\* table, whatever filters and derivations have run since.
C5_LoadedTablesNeverChange ==
    \A t \in TableNames :
        env[EnvVar(t)] # None => env[EnvVar(t)] = store[t]

\* the views that show an aggregate of the KPI frame
KpiMetrics == {"avg_satisfaction", "churn_rate"}

\* C7: when the selection leaves no row of a table that has rows, the run
\* completes without an exception and the mean-satisfaction and churn-rate
\* metrics computed from no rows show "no data", not NaN.
C7_EmptySelectionShowsNoData ==
    (/\ pc = "done"
     /\ Len(store[KpiTable].rows) > 0
     /\ store["campaigns"] # None
     /\ \E m \in KpiMetrics : views[m] # None /\ views[m].idx = <<>>)
    => /\ err = None
       /\ \A m \in KpiMetrics :
             (views[m] # None /\ views[m].idx = <<>>) =>
                 views[m].shown.text = "no data"

\* the index labels of the rows of a stored table that the current selection
\* keeps, filtering on the columns the table has
SelectedIdx(t) ==
    LET a == [city |-> city, gender |-> gender]
        keep(r) == Passes(r, a, ActiveFilters(a) \cap store[t].columns)
        rows == SelectSeq(store[t].rows, keep)
    IN  [i \in 1..Len(rows) |-> rows[i].idx]

\* C8: every metric and chart computed from a customer table is computed from
\* exactly the rows of that table that the current city and gender selection
\* keeps (each table filtered on its own columns).
C8_ViewsShowOnlySelectedRows ==
    \A v \in ViewNames :
        (views[v] # None /\ views[v].table \in CustomerTables) =>
            views[v].idx = SelectedIdx(views[v].table)

\* C13: when a load has ended (the cached load function has returned or
\* raised, the campaigns read of app.py's tab4 has finished), the connection
\* it opened is closed, on the success path and when the query fails; so no
\* connection is open between the steps of a run or after a run.
C13_NoConnectionOpenAfterLoad ==
    conns = 0

====
